---- MODULE Spec2Model ----
(***************************************************************************)
(* A model of src/src/utils.rs of grafite: gen_random, is_prime and        *)
(* gen_prime.                                                              *)
(*                                                                         *)
(* u64 is scaled down to Width bits (values 0 .. MaxU); arithmetic that    *)
(* can overflow keeps that width.  The two collaborators that live in      *)
(* other crates, rand's gen_range and miller_rabin::is_prime, are          *)
(* modelled by the set of results they may give.                           *)
(***************************************************************************)
EXTENDS Integers, Sequences, FiniteSets

\* ------------------------------------------------------------------ bounds

\* Width of the scaled-down unsigned integer type standing for u64.
Width == 8

\* Range endpoints handed to gen_random and gen_prime are taken from 0 .. MaxVal.
MaxVal == 11

\* The counters of draws, oracle calls and rejections are exact below
\* MaxAttempts and saturate there (the retry loop itself is never stopped).
MaxAttempts == 4

\* -------------------------------------------------------------- constants

\* const ITERATIONS: usize = 128;
ITERATIONS == 128

\* ---------------------------------------------------------------- helpers

RECURSIVE Pow2(_)
Pow2(k) == IF k = 0 THEN 1 ELSE 2 * Pow2(k - 1)

\* Largest value of the scaled-down u64.
MaxU == Pow2(Width) - 1

\* The mathematical notion of primality the claims refer to.
Prime(n) == n > 1 /\ \A d \in 2 .. (n - 1) : n % d # 0

Values == 0 .. MaxVal

\* A counter that is exact below MaxAttempts and stays there afterwards.
Bump(c) == IF c < MaxAttempts THEN c + 1 ELSE c

VARIABLES
    op,          \* the function that was called: "none", "gen_random", "gen_prime"
    low, high,   \* the Range<u64> argument: range.start, range.end
    pc,          \* position of the call: "idle", "draw", "test", "done", "panic"
    attempt,     \* gen_prime's local `attempt`
    ret,         \* the returned value (meaningful when pc = "done")
    panicMsg,    \* the panic message (meaningful when pc = "panic")
    rngDraws,    \* how often the thread-local generator's state was advanced
    oracleCalls, \* how often miller_rabin::is_prime was called
    rejected,    \* how many candidates the oracle rejected
    oracleArg,   \* the candidate of the latest oracle call
    oracleIters, \* the iteration count of the latest oracle call
    oracleAns,   \* the answer of the latest oracle call
    oracleKind   \* "exact": no false positives; "probabilistic": Miller-Rabin

genVars == <<op, low, high, pc, attempt, ret, panicMsg, rngDraws, oracleCalls,
             rejected, oracleArg, oracleIters, oracleAns, oracleKind>>

\* State of a call of is_prime.
VARIABLES
    build,    \* "debug": overflow checks on (panic); "release": wrapping arithmetic
    n,        \* is_prime's argument
    ipc,      \* position of the call: "idle", "match", "scan", "done", "panic"
    k,        \* the next item of the RangeFrom iterator (1..)
    result,   \* the returned bool (meaningful when ipc = "done")
    tested,   \* the factors `any` has tried, in order
    squares,  \* the exact products x * x that `take_while` has evaluated, in order
    ipanic    \* the panic message (meaningful when ipc = "panic")

primeVars == <<build, n, ipc, k, result, tested, squares, ipanic>>

vars == <<genVars, primeVars>>

U64 == 0 .. MaxU

\* An arithmetic result as the u64 of a release build holds it.
Wrap(v) == v % (MaxU + 1)

\* Whether an arithmetic result is outside u64.
Overflows(v) == v > MaxU

MulOverflowMsg == "attempt to multiply with overflow"

AddOverflowMsg == "attempt to add with overflow"

ParkedPrime ==
    /\ build = "release"
    /\ n = 0
    /\ ipc = "idle"
    /\ k = 0
    /\ result = FALSE
    /\ tested = <<>>
    /\ squares = <<>>
    /\ ipanic = ""

\* Range<u64>::is_empty: !(start < end).
RangeIsEmpty(l, h) == ~(l < h)

\* rand's Rng::gen_range on a Range<u64>: the values it may return.  On an
\* empty range it panics instead (the "# Panics" sections of gen_random and
\* gen_prime).
gen_range(l, h) == {v \in Values : l <= v /\ v < h}

EmptyRangeMsg == "cannot sample empty range"

\* miller_rabin::is_prime(&cand, iterations): the answers it may give.  A prime
\* is always accepted; 0, 1 and even numbers above 2 are always rejected; an
\* odd composite is rejected by an oracle without false positives and may be
\* accepted by the probabilistic one.
miller_rabin_is_prime(cand, iterations) ==
    IF Prime(cand) THEN {TRUE}
    ELSE IF cand < 2 \/ cand % 2 = 0 \/ oracleKind = "exact" \/ iterations = 0 THEN {FALSE}
    ELSE {TRUE, FALSE}

Init ==
    /\ op = "none"
    /\ low = 0
    /\ high = 0
    /\ pc = "idle"
    /\ attempt = 0
    /\ ret = 0
    /\ panicMsg = ""
    /\ rngDraws = 0
    /\ oracleCalls = 0
    /\ rejected = 0
    /\ oracleArg = 0
    /\ oracleIters = 0
    /\ oracleAns = FALSE
    /\ oracleKind \in {"exact", "probabilistic"}
    /\ ParkedPrime

\* A gen_random that samples the closed range start ..= end.
gen_random_Inclusive(l, h) ==
    /\ pc = "idle"
    /\ op' = "gen_random"
    /\ low' = l
    /\ high' = h
    /\ \/ /\ RangeIsEmpty(l, h)
          /\ pc' = "panic"
          /\ panicMsg' = EmptyRangeMsg
          /\ UNCHANGED <<ret, rngDraws>>
       \/ /\ ~RangeIsEmpty(l, h)
          /\ \E v \in gen_range(l, h) \cup {h} : ret' = v
          /\ rngDraws' = Bump(rngDraws)
          /\ pc' = "done"
          /\ UNCHANGED panicMsg
    /\ UNCHANGED <<attempt, oracleCalls, rejected, oracleArg, oracleIters,
                   oracleAns, oracleKind>>
    /\ UNCHANGED primeVars

\* pub fn gen_random(range: Range<u64>) -> u64 { rand::thread_rng().gen_range(range) }
gen_random(l, h) ==
    /\ pc = "idle"
    /\ op' = "gen_random"
    /\ low' = l
    /\ high' = h
    /\ \/ /\ RangeIsEmpty(l, h)
          /\ pc' = "panic"
          /\ panicMsg' = EmptyRangeMsg
          /\ UNCHANGED <<ret, rngDraws>>
       \/ /\ ~RangeIsEmpty(l, h)
          /\ \E v \in gen_range(l, h) : ret' = v
          /\ rngDraws' = Bump(rngDraws)
          /\ pc' = "done"
          /\ UNCHANGED panicMsg
    /\ UNCHANGED <<attempt, oracleCalls, rejected, oracleArg, oracleIters,
                   oracleAns, oracleKind>>
    /\ UNCHANGED primeVars

\* pub fn gen_prime(range: Range<u64>) -> u64 { let mut rng = rand::thread_rng(); loop {
gen_prime(l, h) ==
    /\ pc = "idle"
    /\ op' = "gen_prime"
    /\ low' = l
    /\ high' = h
    /\ pc' = "draw"
    /\ UNCHANGED <<attempt, ret, panicMsg, rngDraws, oracleCalls, rejected,
                   oracleArg, oracleIters, oracleAns, oracleKind>>
    /\ UNCHANGED primeVars

\* A gen_prime that samples 0 .. range.end, forgetting range.start.
GenPrimeDraw_IgnoresStart ==
    /\ pc = "draw"
    /\ \/ /\ RangeIsEmpty(low, high)
          /\ pc' = "panic"
          /\ panicMsg' = EmptyRangeMsg
          /\ UNCHANGED <<attempt, rngDraws>>
       \/ /\ ~RangeIsEmpty(low, high)
          /\ \E v \in gen_range(0, high) : attempt' = v
          /\ rngDraws' = Bump(rngDraws)
          /\ pc' = "test"
          /\ UNCHANGED panicMsg
    /\ UNCHANGED <<op, low, high, ret, oracleCalls, rejected, oracleArg,
                   oracleIters, oracleAns, oracleKind>>
    /\ UNCHANGED primeVars

\* A gen_prime that advances the generator twice per attempt, keeping the
\* second value.
GenPrimeDraw_DrawsTwice ==
    /\ pc = "draw"
    /\ \/ /\ RangeIsEmpty(low, high)
          /\ pc' = "panic"
          /\ panicMsg' = EmptyRangeMsg
          /\ UNCHANGED <<attempt, rngDraws>>
       \/ /\ ~RangeIsEmpty(low, high)
          /\ \E v \in gen_range(low, high) : attempt' = v
          /\ rngDraws' = Bump(Bump(rngDraws))
          /\ pc' = "test"
          /\ UNCHANGED panicMsg
    /\ UNCHANGED <<op, low, high, ret, oracleCalls, rejected, oracleArg,
                   oracleIters, oracleAns, oracleKind>>
    /\ UNCHANGED primeVars

\* A gen_prime that clamps an empty range to its start instead of panicking.
GenPrimeDraw_Clamps ==
    /\ pc = "draw"
    /\ \E v \in (IF RangeIsEmpty(low, high) THEN {low} ELSE gen_range(low, high)) :
          attempt' = v
    /\ rngDraws' = Bump(rngDraws)
    /\ pc' = "test"
    /\ UNCHANGED <<op, low, high, ret, panicMsg, oracleCalls, rejected, oracleArg,
                   oracleIters, oracleAns, oracleKind>>
    /\ UNCHANGED primeVars

\* let attempt = rng.gen_range(range.clone());
GenPrimeDraw ==
    /\ pc = "draw"
    /\ \/ /\ RangeIsEmpty(low, high)
          /\ pc' = "panic"
          /\ panicMsg' = EmptyRangeMsg
          /\ UNCHANGED <<attempt, rngDraws>>
       \/ /\ ~RangeIsEmpty(low, high)
          /\ \E v \in gen_range(low, high) : attempt' = v
          /\ rngDraws' = Bump(rngDraws)
          /\ pc' = "test"
          /\ UNCHANGED panicMsg
    /\ UNCHANGED <<op, low, high, ret, oracleCalls, rejected, oracleArg,
                   oracleIters, oracleAns, oracleKind>>
    /\ UNCHANGED primeVars

\* A gen_prime that returns the candidate whatever the oracle answered.
GenPrimeTest_IgnoresAnswer ==
    /\ pc = "test"
    /\ \E ans \in miller_rabin_is_prime(attempt, ITERATIONS) :
          /\ oracleArg' = attempt
          /\ oracleIters' = ITERATIONS
          /\ oracleAns' = ans
          /\ oracleCalls' = Bump(oracleCalls)
          /\ ret' = attempt
          /\ pc' = "done"
          /\ UNCHANGED rejected
    /\ UNCHANGED <<op, low, high, attempt, panicMsg, rngDraws, oracleKind>>
    /\ UNCHANGED primeVars

\* A gen_prime whose draw was hoisted out of the loop: a rejected candidate
\* is tested again instead of being replaced.
GenPrimeTest_KeepsCandidate ==
    /\ pc = "test"
    /\ \E ans \in miller_rabin_is_prime(attempt, ITERATIONS) :
          /\ oracleArg' = attempt
          /\ oracleIters' = ITERATIONS
          /\ oracleAns' = ans
          /\ oracleCalls' = Bump(oracleCalls)
          /\ IF ans
                THEN /\ ret' = attempt
                     /\ pc' = "done"
                     /\ UNCHANGED rejected
                ELSE /\ pc' = "test"
                     /\ rejected' = Bump(rejected)
                     /\ UNCHANGED ret
    /\ UNCHANGED <<op, low, high, attempt, panicMsg, rngDraws, oracleKind>>
    /\ UNCHANGED primeVars

\* A gen_prime with the test inverted: it returns what the oracle rejected.
GenPrimeTest_Inverted ==
    /\ pc = "test"
    /\ \E ans \in miller_rabin_is_prime(attempt, ITERATIONS) :
          /\ oracleArg' = attempt
          /\ oracleIters' = ITERATIONS
          /\ oracleAns' = ans
          /\ oracleCalls' = Bump(oracleCalls)
          /\ IF ~ans
                THEN /\ ret' = attempt
                     /\ pc' = "done"
                     /\ UNCHANGED rejected
                ELSE /\ pc' = "draw"
                     /\ rejected' = Bump(rejected)
                     /\ UNCHANGED ret
    /\ UNCHANGED <<op, low, high, attempt, panicMsg, rngDraws, oracleKind>>
    /\ UNCHANGED primeVars

\* A gen_prime with a retry cap: it gives up at the third rejection.
GenPrimeTest_RetryCap ==
    /\ pc = "test"
    /\ \E ans \in miller_rabin_is_prime(attempt, ITERATIONS) :
          /\ oracleArg' = attempt
          /\ oracleIters' = ITERATIONS
          /\ oracleAns' = ans
          /\ oracleCalls' = Bump(oracleCalls)
          /\ IF ans
                THEN /\ ret' = attempt
                     /\ pc' = "done"
                     /\ UNCHANGED <<rejected, panicMsg>>
                ELSE /\ rejected' = Bump(rejected)
                     /\ UNCHANGED ret
                     /\ IF rejected >= 2
                           THEN /\ pc' = "panic"
                                /\ panicMsg' = "no prime found"
                           ELSE /\ pc' = "draw"
                                /\ UNCHANGED panicMsg
    /\ UNCHANGED <<op, low, high, attempt, rngDraws, oracleKind>>
    /\ UNCHANGED primeVars

\* A gen_prime that halves the confidence level once a candidate was rejected.
GenPrimeTest_FewerIterations ==
    /\ pc = "test"
    /\ LET iters == IF rejected = 0 THEN ITERATIONS ELSE ITERATIONS \div 2
       IN  \E ans \in miller_rabin_is_prime(attempt, iters) :
              /\ oracleArg' = attempt
              /\ oracleIters' = iters
              /\ oracleAns' = ans
              /\ oracleCalls' = Bump(oracleCalls)
              /\ IF ans
                    THEN /\ ret' = attempt
                         /\ pc' = "done"
                         /\ UNCHANGED rejected
                    ELSE /\ pc' = "draw"
                         /\ rejected' = Bump(rejected)
                         /\ UNCHANGED ret
    /\ UNCHANGED <<op, low, high, attempt, panicMsg, rngDraws, oracleKind>>
    /\ UNCHANGED primeVars

\* if miller_rabin::is_prime(&attempt, ITERATIONS) { return attempt; }
GenPrimeTest ==
    /\ pc = "test"
    /\ \E ans \in miller_rabin_is_prime(attempt, ITERATIONS) :
          /\ oracleArg' = attempt
          /\ oracleIters' = ITERATIONS
          /\ oracleAns' = ans
          /\ oracleCalls' = Bump(oracleCalls)
          /\ IF ans
                THEN /\ ret' = attempt
                     /\ pc' = "done"
                     /\ UNCHANGED rejected
                ELSE /\ pc' = "draw"
                     /\ rejected' = Bump(rejected)
                     /\ UNCHANGED ret
    /\ UNCHANGED <<op, low, high, attempt, panicMsg, rngDraws, oracleKind>>
    /\ UNCHANGED primeVars

Next ==
    \/ \E l \in Values, h \in Values : gen_random(l, h)
    \/ \E l \in Values, h \in Values : gen_prime(l, h)
    \/ GenPrimeDraw
    \/ GenPrimeTest

Spec == Init /\ [][Next]_vars

\* The retry loop keeps running (the thread is not stopped in the middle of a
\* call) and the random source is fair.  Of its fairness (every value of the
\* bound is drawn again and again) only this consequence is assumed: when a
\* prime can be drawn again and again, a prime is drawn again and again.
FairSpec ==
    /\ Spec
    /\ WF_vars(GenPrimeDraw)
    /\ WF_vars(GenPrimeTest)
    /\ SF_vars(GenPrimeDraw /\ Prime(attempt'))

\* ------------------------------------------------- gen_random and gen_prime

GenPrimeCalled == op = "gen_prime"

HasPrime(l, h) == \E v \in gen_range(l, h) : Prime(v)

\* C1: whenever gen_prime returns, after any number of rejected candidates,
\* the returned value v satisfies low <= v < high.
C1_ReturnWithinBound ==
    (GenPrimeCalled /\ pc = "done") => (low <= ret /\ ret < high)

C1_Witness ==
    GenPrimeCalled /\ pc = "done" /\ rejected >= 2 /\ low > 0 /\ ret = high - 1

\* C2: whenever gen_prime returns v, v is the candidate of the latest oracle
\* call, that call was made with 128 iterations and answered true; with an
\* oracle that has no false positives, v is prime.
C2_ReturnAccepted ==
    (GenPrimeCalled /\ pc = "done") =>
        /\ ret = attempt
        /\ oracleArg = ret
        /\ oracleIters = 128
        /\ oracleAns = TRUE
        /\ oracleKind = "exact" => Prime(ret)

C2_Witness ==
    /\ GenPrimeCalled /\ pc = "done" /\ oracleKind = "exact"
    /\ rejected >= 1 /\ Prime(ret)
    /\ \E v \in gen_range(low, high) : v % 2 = 1 /\ v > 1 /\ ~Prime(v)

\* C3, the state part: after a call with low >= high nothing was drawn, no
\* candidate reached the oracle, nothing was returned, and the only outcome
\* is the invalid-range panic.
C3_NoGeneration ==
    (op # "none" /\ RangeIsEmpty(low, high)) =>
        /\ pc \in {"draw", "panic"}
        /\ op = "gen_random" => pc = "panic"
        /\ pc = "panic" => panicMsg = EmptyRangeMsg
        /\ rngDraws = 0
        /\ oracleCalls = 0
        /\ rejected = 0

\* C3, the step part: the first step of gen_prime on such a range is the
\* panic, and a panic is final (no retry).
C3_FailsAtOnce ==
    /\ (GenPrimeCalled /\ RangeIsEmpty(low, high) /\ pc = "draw") => pc' = "panic"
    /\ pc = "panic" => UNCHANGED vars

\* C3: gen_random and gen_prime both fail immediately with the invalid-range
\* error when given low >= high: neither returns, neither loops, gen_prime
\* never submits a candidate to the oracle, and the failure is not retried.
C3_InvalidRangeFails == []C3_NoGeneration /\ [][C3_FailsAtOnce]_vars

C3_Witness ==
    GenPrimeCalled /\ low > high /\ pc = "panic" /\ panicMsg = EmptyRangeMsg

\* C4: with a fair random source, gen_prime on a non-empty bound that
\* contains a prime eventually accepts a candidate and returns.
C4_Terminates ==
    (GenPrimeCalled /\ ~RangeIsEmpty(low, high) /\ HasPrime(low, high))
        ~> (pc = "done")

C4_Witness ==
    /\ GenPrimeCalled /\ pc = "done" /\ rejected >= 2
    /\ Cardinality({v \in gen_range(low, high) : Prime(v)}) = 1

PrimeFreeCall ==
    /\ GenPrimeCalled
    /\ ~RangeIsEmpty(low, high)
    /\ ~HasPrime(low, high)
    /\ oracleKind = "exact"

\* C5: on a non-empty bound without a prime, with an oracle that has no false
\* positives, gen_prime never returns and never panics: every oracle call so
\* far was a rejection, and the next step of the loop is always possible.
C5_PrimeFreeLoops ==
    PrimeFreeCall =>
        /\ pc \in {"draw", "test"}
        /\ rejected = oracleCalls
        /\ pc = "draw" => ENABLED GenPrimeDraw
        /\ pc = "test" => ENABLED GenPrimeTest

C5_Witness ==
    PrimeFreeCall /\ high - low >= 3 /\ rejected >= 3 /\ pc = "test"

\* C6, the state part: gen_random on a non-empty bound returns a value of it.
C6_WithinBound ==
    (op = "gen_random" /\ ~RangeIsEmpty(low, high)) =>
        /\ pc = "done"
        /\ low <= ret /\ ret < high

\* C6, the step part: a call of gen_random advances the generator once and
\* touches nothing else.
C6_OnlyAdvancesRng ==
    (op' = "gen_random" /\ pc' = "done" /\ pc = "idle") =>
        /\ rngDraws' = rngDraws + 1
        /\ UNCHANGED <<attempt, panicMsg, oracleCalls, rejected, oracleArg,
                       oracleIters, oracleAns, oracleKind, primeVars>>

\* C6: for every bound with low < high, gen_random returns v with
\* low <= v < high, and its only side effect is advancing the random source.
C6_GenRandom == []C6_WithinBound /\ [][C6_OnlyAdvancesRng]_vars

C6_Witness ==
    op = "gen_random" /\ pc = "done" /\ low > 0 /\ ret = high - 1 /\ rngDraws = 1

\* The counters are exact in this state (none has saturated).
CountersExact == rngDraws < MaxAttempts

\* C10, the state part: draws and oracle calls alternate one to one, every
\* oracle call before the accepting one was a rejection, and the value
\* returned is the candidate of the accepting call.
C10_OneDrawOneCall ==
    (GenPrimeCalled /\ ~RangeIsEmpty(low, high) /\ CountersExact) =>
        /\ pc \in {"draw", "test", "done"}
        /\ pc = "draw" => (oracleCalls = rngDraws /\ rejected = oracleCalls)
        /\ pc = "test" => (rngDraws = oracleCalls + 1 /\ rejected = oracleCalls)
        /\ pc = "done" =>
              /\ oracleCalls = rngDraws
              /\ rejected = oracleCalls - 1
              /\ oracleAns = TRUE
              /\ ret = oracleArg

\* C10, the step part: the oracle call tests the value just drawn without
\* drawing again, a rejection leads to a draw, and nothing happens after a
\* candidate was accepted.
C10_FirstAccepted ==
    /\ pc = "test" =>
          /\ oracleArg' = attempt
          /\ rngDraws' = rngDraws
          /\ oracleAns' = TRUE => (pc' = "done" /\ ret' = attempt)
          /\ oracleAns' = FALSE => pc' = "draw"
    /\ (GenPrimeCalled /\ pc = "draw" /\ pc' = "test") =>
          /\ oracleCalls' = oracleCalls
          /\ CountersExact => rngDraws' = rngDraws + 1
    /\ pc = "done" => UNCHANGED vars

\* C10: gen_prime returns the first accepted candidate: each attempt is one
\* draw followed by one oracle call on the drawn value, every earlier
\* candidate was rejected, and nothing is drawn or tested after an acceptance.
C10_ReturnsFirstAccepted == []C10_OneDrawOneCall /\ [][C10_FirstAccepted]_vars

C10_Witness ==
    /\ GenPrimeCalled /\ pc = "done" /\ CountersExact
    /\ rejected = 2 /\ oracleCalls = 3 /\ rngDraws = 3

\* C11, the state part: on a non-empty bound the loop never gives up or
\* fails, whatever the number of rejections; a candidate under test is a
\* value of the caller's bound; and whenever the loop is about to draw,
\* every value of that bound can be drawn, the one just rejected included.
C11_StillDrawing ==
    (GenPrimeCalled /\ ~RangeIsEmpty(low, high)) =>
        /\ pc \in {"draw", "test", "done"}
        /\ panicMsg = ""
        /\ pc = "test" => attempt \in low .. (high - 1)
        /\ pc = "draw" =>
              \A v \in low .. (high - 1) : ENABLED (GenPrimeDraw /\ attempt' = v)

\* C11, the step part: the bound is never changed once the call was made,
\* and a rejection is followed by nothing but the next draw.
C11_NothingCarried ==
    /\ GenPrimeCalled => (low' = low /\ high' = high)
    /\ (pc = "test" /\ oracleAns' = FALSE /\ pc' # "test") => pc' = "draw"

\* C11: no state is carried between attempts of gen_prime and there is no
\* retry cap: every draw is over the unchanged caller-supplied bound (a
\* rejected value may be drawn again), and after any number of rejections
\* the next step is another draw, never a give-up, backoff or error.
C11_NoCapNoState == []C11_StillDrawing /\ [][C11_NothingCarried]_vars

C11_Witness ==
    /\ GenPrimeCalled /\ high = low + 1 /\ pc = "test"
    /\ rejected = MaxAttempts /\ oracleArg = attempt /\ oracleAns = FALSE

\* C12: every oracle call of gen_prime, at every attempt and for every
\* bound, passes 128 iterations: after any call the iteration count of the
\* latest call is 128 (and none is recorded before the first call).
C12_AlwaysIterations ==
    /\ oracleCalls = 0 => oracleIters = 0
    /\ oracleCalls > 0 => oracleIters = 128

C12_Witness ==
    /\ GenPrimeCalled /\ oracleCalls = MaxAttempts /\ rejected >= 3
    /\ oracleIters = 128 /\ high - low >= 3

\* ---------------------------------------------------------------- is_prime

ParkedGen ==
    /\ op = "none"
    /\ low = 0
    /\ high = 0
    /\ pc = "idle"
    /\ attempt = 0
    /\ ret = 0
    /\ panicMsg = ""
    /\ rngDraws = 0
    /\ oracleCalls = 0
    /\ rejected = 0
    /\ oracleArg = 0
    /\ oracleIters = 0
    /\ oracleAns = FALSE
    /\ oracleKind = "exact"

\* A call is_prime(n) of either build, for any u64 n.
InitIsPrime ==
    /\ ParkedGen
    /\ build \in {"debug", "release"}
    /\ n \in U64
    /\ ipc = "match"
    /\ k = 1
    /\ result = FALSE
    /\ tested = <<>>
    /\ squares = <<>>
    /\ ipanic = ""

\* An is_prime without the arm for even numbers: they reach the divisor scan.
IsPrimeMatch_NoEvenArm ==
    /\ ipc = "match"
    /\ IF n = 0 \/ n = 1
          THEN /\ result' = FALSE
               /\ ipc' = "done"
          ELSE IF n = 2
          THEN /\ result' = TRUE
               /\ ipc' = "done"
          ELSE /\ ipc' = "scan"
               /\ UNCHANGED result
    /\ UNCHANGED <<build, n, k, tested, squares, ipanic>>
    /\ UNCHANGED genVars

\* match n { 0 | 1 => false, 2 => true, _ if n % 2 == 0 => false, _ => !(1..)...
IsPrimeMatch ==
    /\ ipc = "match"
    /\ IF n = 0 \/ n = 1
          THEN /\ result' = FALSE
               /\ ipc' = "done"
          ELSE IF n = 2
          THEN /\ result' = TRUE
               /\ ipc' = "done"
          ELSE IF n % 2 = 0
          THEN /\ result' = FALSE
               /\ ipc' = "done"
          ELSE /\ ipc' = "scan"
               /\ UNCHANGED result
    /\ UNCHANGED <<build, n, k, tested, squares, ipanic>>
    /\ UNCHANGED genVars

\* One pull of `any` through (1..).map(|x| 2 * x + 1).take_while(|&x| x * x <= n):
\* the next odd x, the bound check x * x <= n, the test n % factor == 0.
IsPrimeScan ==
    /\ ipc = "scan"
    /\ LET dbl == 2 * k
           x == Wrap(Wrap(dbl) + 1)
           sq == x * x
       IN  IF build = "debug" /\ Overflows(dbl)
             THEN /\ ipc' = "panic"
                  /\ ipanic' = MulOverflowMsg
                  /\ UNCHANGED <<k, result, tested, squares>>
           ELSE IF build = "debug" /\ Overflows(sq)
             THEN /\ ipc' = "panic"
                  /\ ipanic' = MulOverflowMsg
                  /\ squares' = Append(squares, sq)
                  /\ UNCHANGED <<k, result, tested>>
           ELSE IF ~(Wrap(sq) <= n)
             THEN /\ result' = TRUE
                  /\ ipc' = "done"
                  /\ squares' = Append(squares, sq)
                  /\ UNCHANGED <<k, tested, ipanic>>
           ELSE IF n % x = 0
             THEN /\ result' = FALSE
                  /\ ipc' = "done"
                  /\ squares' = Append(squares, sq)
                  /\ tested' = Append(tested, x)
                  /\ UNCHANGED <<k, ipanic>>
           ELSE IF build = "debug" /\ Overflows(k + 1)
             THEN /\ ipc' = "panic"
                  /\ ipanic' = AddOverflowMsg
                  /\ squares' = Append(squares, sq)
                  /\ tested' = Append(tested, x)
                  /\ UNCHANGED <<k, result>>
           ELSE /\ k' = Wrap(k + 1)
                /\ squares' = Append(squares, sq)
                /\ tested' = Append(tested, x)
                /\ UNCHANGED <<ipc, result, ipanic>>
    /\ UNCHANGED <<build, n>>
    /\ UNCHANGED genVars

NextIsPrime ==
    \/ IsPrimeMatch
    \/ IsPrimeScan

SpecIsPrime == InitIsPrime /\ [][NextIsPrime]_vars

IsPrimeEnded == ipc \in {"done", "panic"}

\* C7: is_prime is exact for every u64 n: the call returns, and it returns
\* true if and only if n is prime.
C7_IsPrimeExact ==
    IsPrimeEnded => (ipc = "done" /\ result = Prime(n))

\* C8: is_prime returns false for 0 and 1, true for 2 and false for every
\* even n > 2, and decides these without the divisor scan: no factor is
\* tried and no product x * x is evaluated.
C8_SmallAndEven ==
    (n <= 2 \/ n % 2 = 0) =>
        /\ ipc \in {"match", "done"}
        /\ tested = <<>>
        /\ squares = <<>>
        /\ ipc = "done" => result = (n = 2)

C8_Witness ==
    ipc = "done" /\ n > 2 /\ n % 2 = 0 /\ result = FALSE /\ build = "debug"

OddAboveTwo == n > 2 /\ n % 2 = 1

\* What C13 says of the divisor scan of an odd n > 2: the factors tried are
\* 3, 5, 7, ... in this order, none exceeds sqrt(n), none but the last
\* divides n, and the call returns: false at the first factor dividing n,
\* true once every odd factor up to floor(sqrt(n)) was tried.
ScanAsClaimed ==
    /\ ipc # "panic"
    /\ \A i \in DOMAIN tested :
          /\ tested[i] = 2 * i + 1
          /\ tested[i] * tested[i] <= n
    /\ \A i \in 1 .. (Len(tested) - 1) : n % tested[i] # 0
    /\ ipc = "scan" => \A i \in DOMAIN tested : n % tested[i] # 0
    /\ ipc = "done" =>
          IF result
            THEN /\ \A i \in DOMAIN tested : n % tested[i] # 0
                 /\ (2 * Len(tested) + 3) * (2 * Len(tested) + 3) > n
            ELSE /\ Len(tested) > 0
                 /\ n % tested[Len(tested)] = 0

\* C13: for every odd n > 2, is_prime tests exactly the odd divisors 3, 5,
\* 7, ... in increasing order up to and including floor(sqrt(n)), stops at
\* the first that divides n, and terminates for every u64 n without testing
\* a divisor greater than sqrt(n).
C13_OddDivisorsUpToSqrt ==
    OddAboveTwo => ScanAsClaimed

\* The largest odd x whose square is a u64 (2^32 - 1 for the 64-bit type).
LargestOddRoot ==
    CHOOSE x \in U64 : x % 2 = 1 /\ x * x <= MaxU /\ (x + 2) * (x + 2) > MaxU

\* The scan is as C13 says for every n below the square of LargestOddRoot,
\* where no product x * x leaves u64.
C13_BelowOverflow ==
    (OddAboveTwo /\ n < LargestOddRoot * LargestOddRoot) => ScanAsClaimed

\* C14: the bound check x * x <= n never overflows u64: every product the
\* divisor scan evaluates, the one that ends the scan included, is at most
\* u64::MAX.
C14_NoOverflow ==
    \A i \in DOMAIN squares : ~Overflows(squares[i])

\* C14 for every n below the square of LargestOddRoot.
C14_BelowOverflow ==
    n < LargestOddRoot * LargestOddRoot => C14_NoOverflow

\* C7 on the primes of the unit test.
C7_KnownPrimes ==
    (IsPrimeEnded /\ n \in {2, 3, 5, 7, 11, 13, 17, 19}) =>
        (ipc = "done" /\ result = TRUE)

====
